---- MODULE Spec2Model ----
(***************************************************************************)
(* Model of the clinical-trial site selection frontend: the Dashboard      *)
(* (tabs, Part 2 unlock), the SiteSelectionView and MonitoringView         *)
(* components, and the status pollers of services/api.ts.                  *)
(*                                                                         *)
(* One step of the model is one JavaScript task: a click handler, the      *)
(* arrival of an HTTP response together with the continuations it wakes    *)
(* (microtasks run to completion before the next task), or a timer firing. *)
(* React state of an unmounted component is gone: setState calls from a    *)
(* closure of an unmounted instance change nothing, and the next mount     *)
(* starts from the useState initial values.                                *)
(***************************************************************************)
EXTENDS Integers, Sequences, FiniteSets, TLC

\* ---------------------------------------------------------------- bounds
MaxLoops == 2          \* poll loops (investigations) started in one run
MaxNonTerminal == 1    \* failed or pending/running answers the server gives per loop
MaxRedeliveries == 1   \* fetches still issued after a terminal answer (callback threw)

Loops == 1..MaxLoops

\* ------------------------------------------------------- values and types
Null == "null"
Undefined == "undefined"

PENDING == "pending"
RUNNING == "running"
COMPLETE == "complete"
ERROR == "error"

Views == {"site", "monitor"}
Kinds == Views \cup {"generic"}

\* JavaScript truthiness of a string-or-null value
Truthy(x) == x \notin {Null, Undefined, ""}

\* a || b
OrElse(a, b) == IF Truthy(a) THEN a ELSE b

\* the agent lists of a snapshot, each agent by its status (AgentStatus.status):
\* no agent registered yet, then two agents working one after the other
AgentLists ==
    {<<>>, <<PENDING, PENDING>>, <<COMPLETE, RUNNING>>,
     <<COMPLETE, COMPLETE>>, <<COMPLETE, ERROR>>}

\* (mutant) the job counts as complete as soon as one agent is
Aggregate_AnyComplete(agents) ==
    IF \E i \in 1..Len(agents) : agents[i] = ERROR THEN ERROR
    ELSE IF \E i \in 1..Len(agents) : agents[i] = COMPLETE THEN COMPLETE
    ELSE IF \E i \in 1..Len(agents) : agents[i] = RUNNING THEN RUNNING
    ELSE PENDING

\* the status of an investigation, from the statuses of its agents: error
\* if any agent reports an error, complete only when every agent is
\* complete, running once an agent has started, pending before
Aggregate(agents) ==
    IF \E i \in 1..Len(agents) : agents[i] = ERROR THEN ERROR
    ELSE IF agents # <<>> /\ \A i \in 1..Len(agents) : agents[i] = COMPLETE THEN COMPLETE
    ELSE IF \E i \in 1..Len(agents) : agents[i] \in {RUNNING, COMPLETE} THEN RUNNING
    ELSE PENDING

\* an agent's status never regresses: pending, then running, then complete
\* or error for good
AgentAdvances(a, b) ==
    \/ a = b
    \/ a = PENDING
    \/ a = RUNNING /\ b \in {COMPLETE, ERROR}

\* agent list b may follow agent list a in the life of one investigation
Advances(a, b) ==
    /\ Len(a) <= Len(b)
    /\ \A i \in 1..Len(a) : AgentAdvances(a[i], b[i])

NullSnapshot ==
    [investigation_id |-> 0, status |-> Null, agents |-> <<>>,
     final_report |-> Undefined, error |-> Undefined]

Reports == {Undefined, "", "not-json", "report"}
ErrorTexts == {Undefined, "", "agent crashed"}

\* the optional fields a snapshot of the given status may carry
Payloads(status) ==
    IF status = COMPLETE
    THEN {[final_report |-> r, error |-> Undefined] : r \in Reports}
    ELSE IF status = ERROR
    THEN {[final_report |-> Undefined, error |-> e] : e \in ErrorTexts}
    ELSE {[final_report |-> Undefined, error |-> Undefined]}

\* the InvestigationStatus values the server may give for investigation id
JobSnapshots(id) ==
    UNION {{[investigation_id |-> id, status |-> Aggregate(a), agents |-> a,
             final_report |-> p.final_report, error |-> p.error]
            : p \in Payloads(Aggregate(a))} : a \in AgentLists}

Snapshots == UNION {JobSnapshots(id) : id \in Loops}

IsTerminal(s) == s.status \in {COMPLETE, ERROR}

NonTerminalSnapshots == {s \in Snapshots : ~IsTerminal(s)}

TerminalSnapshots == {s \in Snapshots : IsTerminal(s)}

\* an HTTP answer to a status fetch: the axios promise rejects (ok = FALSE)
\* or resolves with response.data
FetchFail == [ok |-> FALSE, data |-> NullSnapshot]
FetchOk(s) == [ok |-> TRUE, data |-> s]

TrialIds == {"", "trial-1"}
StartErrorTexts == {"", "Network Error"}
\* the optional argument intervalMs: <<>> when the caller omits it
Omitted == <<>>
IntervalArgs == {Omitted, <<500>>}

ViewInit ==
    [status |-> NullSnapshot, isRunning |-> FALSE, error |-> Null,
     jobId |-> 0, trialId |-> Null, finalReport |-> Null]

LoopInit ==
    [kind |-> "none", phase |-> "unused", attached |-> FALSE, trial_id |-> Null,
     intervalArg |-> <<>>, intervalMs |-> 0, delay |-> 0, promise |-> "none", dropped |-> FALSE,
     nFail |-> 0, fetched |-> <<>>, delivered |-> <<>>,
     inFlight |-> 0, timers |-> 0, cbThrew |-> FALSE, preReset |-> FALSE]

\* call: the last call of one of the request helpers of api.ts, with its
\* argument and its outcome
VARIABLES activeTab, trialId, analysisComplete, view, loops, call

vars == <<activeTab, trialId, analysisComplete, view, loops, call>>

NoCall == [fn |-> "none"]

\* ------------------------------------------------------------- api.ts
\* intervalMs: number = 2000 (the default parameter value)
DefaultIntervalMs == 2000

IntervalOrDefault(arg) == IF arg = Omitted THEN DefaultIntervalMs ELSE arg[1]

\* (mutant) the loop also goes on after a snapshot with status error
ContinuePolling_UntilComplete(s) == s.status # COMPLETE

\* if (status.status === 'running' || status.status === 'pending')
ContinuePolling(s) == s.status = RUNNING \/ s.status = PENDING

\* (mutant) the retry after a failure backs off
NextDelay_Backoff(intervalMs, failed) == IF failed THEN 2 * intervalMs ELSE intervalMs

\* setTimeout(poll, intervalMs): the delay armed after a fetch; failed tells
\* the catch branch from the try branch
NextDelay(intervalMs, failed) == intervalMs

\* (mutant) onUpdate is called for terminal snapshots only
poll_TerminalOnly(r, cbThrows, intervalMs) ==
    IF ~r.ok
    THEN [called |-> FALSE, next |-> "timer", armed |-> 1,
          delay |-> NextDelay(intervalMs, TRUE), rejected |-> FALSE]
    ELSE IF ContinuePolling(r.data)
    THEN [called |-> FALSE, next |-> "timer", armed |-> 1,
          delay |-> NextDelay(intervalMs, FALSE), rejected |-> FALSE]
    ELSE IF cbThrows
    THEN [called |-> TRUE, next |-> "timer", armed |-> 1,
          delay |-> NextDelay(intervalMs, TRUE), rejected |-> FALSE]
    ELSE [called |-> TRUE, next |-> "stopped", armed |-> 0, delay |-> 0, rejected |-> FALSE]

\* (mutant) a failed fetch is rethrown instead of retried
poll_Rethrow(r, cbThrows, intervalMs) ==
    IF ~r.ok
    THEN [called |-> FALSE, next |-> "stopped", armed |-> 0, delay |-> 0, rejected |-> TRUE]
    ELSE IF cbThrows
    THEN [called |-> TRUE, next |-> "timer", armed |-> 1,
          delay |-> NextDelay(intervalMs, TRUE), rejected |-> FALSE]
    ELSE IF ContinuePolling(r.data)
    THEN [called |-> TRUE, next |-> "timer", armed |-> 1,
          delay |-> NextDelay(intervalMs, FALSE), rejected |-> FALSE]
    ELSE [called |-> TRUE, next |-> "stopped", armed |-> 0, delay |-> 0, rejected |-> FALSE]

\* (mutant) onUpdate is called outside the try block: its exception ends
\* the loop and rejects the promise of poll()
poll_ThrowEscapes(r, cbThrows, intervalMs) ==
    IF ~r.ok
    THEN [called |-> FALSE, next |-> "timer", armed |-> 1,
          delay |-> NextDelay(intervalMs, TRUE), rejected |-> FALSE]
    ELSE IF cbThrows
    THEN [called |-> TRUE, next |-> "stopped", armed |-> 0, delay |-> 0, rejected |-> TRUE]
    ELSE IF ContinuePolling(r.data)
    THEN [called |-> TRUE, next |-> "timer", armed |-> 1,
          delay |-> NextDelay(intervalMs, FALSE), rejected |-> FALSE]
    ELSE [called |-> TRUE, next |-> "stopped", armed |-> 0, delay |-> 0, rejected |-> FALSE]

\* (mutant) the retry is scheduled in the catch block and once more in a
\* finally block
poll_ArmsTwice(r, cbThrows, intervalMs) ==
    IF ~r.ok
    THEN [called |-> FALSE, next |-> "timer", armed |-> 2,
          delay |-> NextDelay(intervalMs, TRUE), rejected |-> FALSE]
    ELSE IF cbThrows
    THEN [called |-> TRUE, next |-> "timer", armed |-> 2,
          delay |-> NextDelay(intervalMs, TRUE), rejected |-> FALSE]
    ELSE IF ContinuePolling(r.data)
    THEN [called |-> TRUE, next |-> "timer", armed |-> 1,
          delay |-> NextDelay(intervalMs, FALSE), rejected |-> FALSE]
    ELSE [called |-> TRUE, next |-> "stopped", armed |-> 0, delay |-> 0, rejected |-> FALSE]

\* One run of the closure poll() from the arrival of the HTTP answer r on.
\* cbThrows: the caller's onUpdate throws on this call.
\*   called   - onUpdate was invoked with r.data
\*   next     - "timer" when setTimeout(poll, ...) was called, else "stopped"
\*   armed    - the number of setTimeout calls made
\*   delay    - the delay given to setTimeout
\*   rejected - the promise of poll() rejects (it never does: the catch
\*              swallows every exception)
poll(r, cbThrows, intervalMs) ==
    IF ~r.ok
    THEN [called |-> FALSE, next |-> "timer", armed |-> 1,
          delay |-> NextDelay(intervalMs, TRUE), rejected |-> FALSE]
    ELSE IF cbThrows
    THEN [called |-> TRUE, next |-> "timer", armed |-> 1,
          delay |-> NextDelay(intervalMs, TRUE), rejected |-> FALSE]
    ELSE IF ContinuePolling(r.data)
    THEN [called |-> TRUE, next |-> "timer", armed |-> 1,
          delay |-> NextDelay(intervalMs, FALSE), rejected |-> FALSE]
    ELSE [called |-> TRUE, next |-> "stopped", armed |-> 0, delay |-> 0, rejected |-> FALSE]

\* (mutant) the promise of the poll function settles when the loop ends
PromiseAfter_AtTerminal(promise, out) ==
    IF promise # "pending" THEN promise
    ELSE IF out.rejected THEN "rejected"
    ELSE IF out.next = "stopped" THEN "resolved"
    ELSE "pending"

\* await poll(): the promise of the poll function settles with the first
\* run of poll(); out is the outcome of the run that just ended
PromiseAfter(promise, out) ==
    IF promise # "pending" THEN promise
    ELSE IF out.rejected THEN "rejected"
    ELSE "resolved"

\* --------------------------------------------------- request helpers
\* An optional value is <<>> when it is absent (undefined) and <<x>> when it
\* is x.
Absent == <<>>

\* x || d for an optional number x
NumOr(x, d) == IF x = Absent \/ x[1] = 0 THEN d ELSE x[1]

\* x || d for an optional string x
StrOr(x, d) == IF x = Absent \/ x[1] = "" THEN d ELSE x[1]

\* the argument trialParams?: Partial<TrialParameters>
NoParams ==
    [phase |-> Absent, indication |-> Absent, target_enrollment |-> Absent,
     duration_months |-> Absent, target_sites |-> Absent]

TrialParams ==
    [phase : {Absent, <<"">>, <<"Phase II">>},
     indication : {Absent, <<"Cardiology">>},
     target_enrollment : {Absent, <<0>>, <<150>>},
     duration_months : {Absent, <<0>>, <<12>>},
     target_sites : {Absent, <<0>>, <<5>>}]

\* the body startSiteAnalysis posts to /api/site-analysis/start (a call
\* without argument reads every field of trialParams as undefined)
startSiteAnalysis(trialParams) ==
    [phase |-> StrOr(trialParams.phase, "Phase III"),
     indication |-> StrOr(trialParams.indication, "Oncology"),
     target_enrollment |-> NumOr(trialParams.target_enrollment, 200),
     duration_months |-> NumOr(trialParams.duration_months, 18),
     target_sites |-> NumOr(trialParams.target_sites, 10)]

\* WhatIfScenario: the intervention type and the optional fields populated
InterventionTypes ==
    {"add_recruitment_budget", "replace_site", "extend_trial_duration",
     "increase_site_support"}

InterventionFields ==
    {"budget_amount", "replacement_site_id", "extension_weeks", "support_level"}

WhatIfScenarios ==
    [intervention_type : InterventionTypes, populated : SUBSET InterventionFields]

\* runWhatIfScenario: the scenario is posted as it is; rejected tells that
\* the function threw before the request was made
runWhatIfScenario(scenario) ==
    [posted |-> TRUE, rejected |-> FALSE, body |-> scenario]

\* the values formatErrorMessage may be given: null, undefined, or an
\* object with the optional properties error, message and response
ResponseValues ==
    {Absent, <<[data |-> Absent]>>}
    \cup {<<[data |-> <<[message |-> m]>>]>> : m \in {Absent, <<"">>, <<"Request failed">>}}

ErrorValues ==
    {[kind |-> k, error |-> Absent, message |-> Absent, response |-> Absent]
        : k \in {Null, Undefined}}
    \cup [kind : {"object"}, error : {Absent, <<"">>, <<"E_CODE">>},
          message : {Absent, <<"">>, <<"Network Error">>}, response : ResponseValues]

\* error && typeof error.error === 'string'
isApiError(error) == error.kind = "object" /\ error.error # Absent

\* error.response?.data?.message
ResponseMessage(error) ==
    IF error.response = Absent THEN Absent
    ELSE IF error.response[1].data = Absent THEN Absent
    ELSE error.response[1].data[1].message

\* formatErrorMessage: threw tells that a TypeError was thrown (a property
\* of null or undefined was read), value is the string returned
formatErrorMessage(error) ==
    IF isApiError(error)
    THEN [threw |-> FALSE, value |-> StrOr(error.message, error.error[1])]
    ELSE IF error.kind # "object"
    THEN [threw |-> TRUE, value |-> ""]
    ELSE IF StrOr(ResponseMessage(error), "") # ""
    THEN [threw |-> FALSE, value |-> ResponseMessage(error)[1]]
    ELSE IF StrOr(error.message, "") # ""
    THEN [threw |-> FALSE, value |-> error.message[1]]
    ELSE [threw |-> FALSE, value |-> "An unexpected error occurred"]

\* ------------------------------------------------------------- views
\* the fallback texts of the two views
FailedText(v) == IF v = "site" THEN "Analysis failed" ELSE "Monitoring failed"
StartFailedText(v) ==
    IF v = "site" THEN "Failed to start analysis" ELSE "Failed to start monitoring"

\* the first four setState calls of handleStartAnalysis / handleStartMonitoring
BeginRun(cur) ==
    [cur EXCEPT !.error = Null, !.isRunning = TRUE,
                !.status = NullSnapshot, !.finalReport = Null]

\* (mutant) the callback forgets setStatus
OnUpdateView_NoSetStatus(v, cur, s) ==
    LET b == IF s.status = COMPLETE
             THEN [cur EXCEPT !.isRunning = FALSE,
                              !.finalReport = OrElse(s.final_report, Null)]
             ELSE cur
    IN  IF s.status = ERROR
        THEN [b EXCEPT !.isRunning = FALSE,
                       !.error = OrElse(s.error, FailedText(v))]
        ELSE b

\* (mutant) the error branch forgets setError
OnUpdateView_NoSetError(v, cur, s) ==
    LET a == [cur EXCEPT !.status = s]
    IN  IF s.status = COMPLETE
        THEN [a EXCEPT !.isRunning = FALSE,
                       !.finalReport = OrElse(s.final_report, Null)]
        ELSE IF s.status = ERROR THEN [a EXCEPT !.isRunning = FALSE]
        ELSE a

\* the onUpdate callback the views pass to the poller, as a state change of
\* the view instance
OnUpdateView(v, cur, s) ==
    LET a == [cur EXCEPT !.status = s]
        b == IF s.status = COMPLETE
             THEN [a EXCEPT !.isRunning = FALSE,
                            !.finalReport = OrElse(s.final_report, Null)]
             ELSE a
    IN  IF s.status = ERROR
        THEN [b EXCEPT !.isRunning = FALSE,
                       !.error = OrElse(s.error, FailedText(v))]
        ELSE b

\* the catch block of handleStartAnalysis / handleStartMonitoring
CatchStart(v, cur, message) ==
    [cur EXCEPT !.error = OrElse(message, StartFailedText(v)), !.isRunning = FALSE]

\* (mutant) the parent is notified whatever the trial id
NotifiesParent_AnyTrialId(k, s, tid) == k = "site" /\ s.status = COMPLETE

\* if (response.trial_id) onAnalysisComplete(response.trial_id), on COMPLETE
NotifiesParent(k, s, tid) == k = "site" /\ s.status = COMPLETE /\ Truthy(tid)

\* what the views render
\* (mutant) the start button is hidden only once a snapshot is held
StartEnabled_NoStatusOnly(cur) == cur.status = NullSnapshot

StartEnabled(cur) == ~cur.isRunning /\ cur.status = NullSnapshot
ErrorShown(cur) == Truthy(cur.error)

\* (mutant) the check mark is shown for every finished run
CompletionShown_Finished(cur) == cur.status.status \in {COMPLETE, ERROR}

CompletionShown(cur) == cur.status.status = COMPLETE

\* {status && ( ... )}: the agent cards and the progress bar are rendered
ProgressShown(cur) == cur.status # NullSnapshot

\* status.agents.filter(a => a.status === StatusEnum.COMPLETE).length
AgentsComplete(s) == Cardinality({i \in 1..Len(s.agents) : s.agents[i] = COMPLETE})

\* the width of the progress bar, as the fraction num / den of the
\* JavaScript division (with den = 0 the quotient 0 / 0 is NaN)
Progress(s) == [num |-> AgentsComplete(s), den |-> Len(s.agents)]
ResultsShown(cur) == cur.status.status = COMPLETE /\ Truthy(cur.finalReport)
PlaceholderShown(cur) == cur.status # NullSnapshot /\ ~ResultsShown(cur)

\* ------------------------------------------------------ result components
\* The three result components take the final report as the prop report and
\* do not read it: each renders the data written into the component.
\* Numbers with decimals are kept as integers: composite_score in
\* thousandths, the probability in hundredths.

\* (mutant) the pessimistic and the optimistic band are exchanged
ForecastDataPoint_BandsSwapped(week, actual, p10, p50, p90) ==
    [week |-> week, actual |-> actual, p10 |-> p90, p50 |-> p50, p90 |-> p10]

\* (mutant) all three bands carry the median
ForecastDataPoint_MedianOnly(week, actual, p10, p50, p90) ==
    [week |-> week, actual |-> actual, p10 |-> p50, p50 |-> p50, p90 |-> p50]

\* { week, actual, p10, p50, p90 }: a row of mockForecastData
ForecastDataPoint(week, actual, p10, p50, p90) ==
    [week |-> week, actual |-> actual, p10 |-> p10, p50 |-> p50, p90 |-> p90]

mockForecastData ==
    <<ForecastDataPoint(1, 12, Null, Null, Null),
      ForecastDataPoint(2, 25, Null, Null, Null),
      ForecastDataPoint(3, 38, Null, Null, Null),
      ForecastDataPoint(4, 52, Null, Null, Null),
      ForecastDataPoint(5, 64, Null, Null, Null),
      ForecastDataPoint(6, 77, Null, Null, Null),
      ForecastDataPoint(7, 89, Null, Null, Null),
      ForecastDataPoint(8, 98, Null, Null, Null),
      ForecastDataPoint(9, 108, Null, Null, Null),
      ForecastDataPoint(10, 116, Null, Null, Null),
      ForecastDataPoint(11, 122, Null, Null, Null),
      ForecastDataPoint(12, 128, Null, Null, Null),
      ForecastDataPoint(13, 132, Null, Null, Null),
      ForecastDataPoint(14, Null, 135, 140, 145),
      ForecastDataPoint(18, Null, 145, 155, 165),
      ForecastDataPoint(22, Null, 152, 167, 182),
      ForecastDataPoint(26, Null, 158, 178, 198),
      ForecastDataPoint(30, Null, 163, 187, 211),
      ForecastDataPoint(34, Null, 167, 195, 223),
      ForecastDataPoint(38, Null, 170, 202, 234),
      ForecastDataPoint(42, Null, 173, 208, 243),
      ForecastDataPoint(46, Null, 175, 213, 251),
      ForecastDataPoint(50, Null, 177, 217, 257),
      ForecastDataPoint(52, Null, 178, 219, 260)>>

targetEnrollment == 200
currentEnrolled == 132
projectedFinal == 219
\* 0.68
probabilityMeetingTarget == 68
\* 'Week 13 of 52'
weeksElapsed == 13
totalWeeks == 52

\* (mutant) the number of patients enrolled so far is shown as the target
EnrollmentCurveChart_TargetIsCurrent(report) ==
    [forecast_curve |-> mockForecastData, weeks_elapsed |-> weeksElapsed,
     total_weeks |-> totalWeeks, target |-> currentEnrolled, current |-> currentEnrolled,
     projected |-> projectedFinal, probability |-> probabilityMeetingTarget]

\* what EnrollmentCurveChart renders for the prop report
EnrollmentCurveChart(report) ==
    [forecast_curve |-> mockForecastData, weeks_elapsed |-> weeksElapsed,
     total_weeks |-> totalWeeks, target |-> targetEnrollment, current |-> currentEnrolled,
     projected |-> projectedFinal, probability |-> probabilityMeetingTarget]

\* (mutant) the first alert is classified by its shortfall
mockAlerts_ShortfallFirst ==
    <<[alert_id |-> "1", site_id |-> "Site-022", severity |-> "warning",
      alert_type |-> "underperforming", current_enrollment |-> 18, target_enrollment |-> 20,
      shortfall_percent |-> 65, weeks_since_last_enrollment |-> 3],
     [alert_id |-> "2", site_id |-> "Site-178", severity |-> "warning",
      alert_type |-> "underperforming", current_enrollment |-> 11, target_enrollment |-> 20,
      shortfall_percent |-> 45, weeks_since_last_enrollment |-> 0],
     [alert_id |-> "3", site_id |-> "Site-267", severity |-> "info",
      alert_type |-> "declining_trend", current_enrollment |-> 14, target_enrollment |-> 20,
      shortfall_percent |-> 30, weeks_since_last_enrollment |-> 0]>>

mockAlerts ==
    <<[alert_id |-> "1", site_id |-> "Site-022", severity |-> "critical",
      alert_type |-> "flatlined", current_enrollment |-> 18, target_enrollment |-> 20,
      shortfall_percent |-> 65, weeks_since_last_enrollment |-> 3],
     [alert_id |-> "2", site_id |-> "Site-178", severity |-> "warning",
      alert_type |-> "underperforming", current_enrollment |-> 11, target_enrollment |-> 20,
      shortfall_percent |-> 45, weeks_since_last_enrollment |-> 0],
     [alert_id |-> "3", site_id |-> "Site-267", severity |-> "info",
      alert_type |-> "declining_trend", current_enrollment |-> 14, target_enrollment |-> 20,
      shortfall_percent |-> 30, weeks_since_last_enrollment |-> 0]>>

\* what AlertDashboard renders for the prop report
AlertDashboard(report) == mockAlerts

mockSites ==
    <<[rank |-> 1, site_id |-> "Site-047", composite_score |-> 912],
      [rank |-> 2, site_id |-> "Site-156", composite_score |-> 887],
      [rank |-> 3, site_id |-> "Site-234", composite_score |-> 865],
      [rank |-> 4, site_id |-> "Site-089", composite_score |-> 842],
      [rank |-> 5, site_id |-> "Site-311", composite_score |-> 829],
      [rank |-> 6, site_id |-> "Site-178", composite_score |-> 815],
      [rank |-> 7, site_id |-> "Site-412", composite_score |-> 801],
      [rank |-> 8, site_id |-> "Site-267", composite_score |-> 795],
      [rank |-> 9, site_id |-> "Site-145", composite_score |-> 788],
      [rank |-> 10, site_id |-> "Site-022", composite_score |-> 781]>>

\* (mutant) the table leaves out the site of the header card and keeps the ranks
SiteRecommendationTable_WithoutTop(report) == Tail(mockSites)

\* what SiteRecommendationTable renders for the prop report
SiteRecommendationTable(report) == mockSites

\* ------------------------------------------------------------ Dashboard
\* which view the Dashboard's <main> renders
Mounted(v, tab, tid, done) ==
    IF v = "site" THEN tab = "selection"
    ELSE tab = "monitoring" /\ done /\ Truthy(tid)

IsMounted(v) == Mounted(v, activeTab, trialId, analysisComplete)

\* the 'New Analysis' button and the Part 2 tab are available
ResetShown == analysisComplete
MonitoringTabEnabled == analysisComplete

\* the Dashboard's three useState values as one record
DashboardState ==
    [activeTab |-> activeTab, trialId |-> trialId, analysisComplete |-> analysisComplete]

handleAnalysisComplete(d, completedTrialId) ==
    [d EXCEPT !.trialId = completedTrialId, !.analysisComplete = TRUE]

\* (mutant) the reset leaves the active tab alone
handleReset_KeepsTab(d) ==
    [d EXCEPT !.trialId = Null, !.analysisComplete = FALSE]

handleReset(d) ==
    [d EXCEPT !.activeTab = "selection", !.trialId = Null, !.analysisComplete = FALSE]

\* onClick of the two tab buttons
selectTab(d, tab) == [d EXCEPT !.activeTab = tab]

\* React after a Dashboard state change: a view that is no longer rendered
\* loses its state, and the closures of its instance are detached
ViewsAfter(vs, tab, tid, done) ==
    [v \in Views |-> IF Mounted(v, tab, tid, done) THEN vs[v] ELSE ViewInit]

LoopsAfter(ls, tab, tid, done) ==
    [l \in Loops |->
        IF ls[l].kind \in Views /\ ~Mounted(ls[l].kind, tab, tid, done)
        THEN [ls[l] EXCEPT !.attached = FALSE]
        ELSE ls[l]]

\* ------------------------------------------------------------- helpers
FreeLoop(l) ==
    /\ loops[l].phase = "unused"
    /\ \A m \in Loops : m < l => loops[m].phase # "unused"

\* answers of the server script used up by loop l
NonTerminalUsed(l) ==
    loops[l].nFail
    + Cardinality({i \in 1..Len(loops[l].fetched) : ~IsTerminal(loops[l].fetched[i])})

TerminalFetched(l) ==
    Cardinality({i \in 1..Len(loops[l].fetched) : IsTerminal(loops[l].fetched[i])})

Init ==
    /\ activeTab = "selection"
    /\ trialId = Null
    /\ analysisComplete = FALSE
    /\ view = [v \in Views |-> ViewInit]
    /\ loops = [l \in Loops |-> LoopInit]
    /\ call = NoCall

\* the Dashboard re-renders with state d; vs and ls are the views and loops
\* as the handlers of this task left them
Commit(d, vs, ls) ==
    /\ activeTab' = d.activeTab
    /\ trialId' = d.trialId
    /\ analysisComplete' = d.analysisComplete
    /\ view' = ViewsAfter(vs, d.activeTab, d.trialId, d.analysisComplete)
    /\ loops' = LoopsAfter(ls, d.activeTab, d.trialId, d.analysisComplete)
    /\ call' = call

\* ------------------------------------------------------ Dashboard actions
ClickSelectionTab ==
    Commit(selectTab(DashboardState, "selection"), view, loops)

ClickMonitoringTab ==
    /\ MonitoringTabEnabled
    /\ Commit(selectTab(DashboardState, "monitoring"), view, loops)

\* (the loops in existence are marked preReset, for the record only)
ClickNewAnalysis ==
    /\ ResetShown
    /\ Commit(handleReset(DashboardState), view,
              [l \in Loops |-> IF loops[l].phase = "unused" THEN loops[l]
                               ELSE [loops[l] EXCEPT !.preReset = TRUE]])

\* ----------------------------------------------------------- view actions
\* click on the start button of view v: the handler runs up to its first
\* await, with the start request (POST .../start) in flight
StartRun(v, l) ==
    /\ IsMounted(v)
    /\ StartEnabled(view[v])
    /\ FreeLoop(l)
    /\ Commit(DashboardState,
              [view EXCEPT ![v] = BeginRun(@)],
              [loops EXCEPT ![l] = [@ EXCEPT !.kind = v, !.phase = "starting",
                                             !.attached = TRUE]])

handleStartAnalysis(l) == StartRun("site", l)

handleStartMonitoring(l) == StartRun("monitor", l)

\* the start request succeeds: the ids are stored and the poller is called
\* without an interval; poll() issues the first status fetch
StartSucceeds(l, tid) ==
    LET L == loops[l]
        v == L.kind
        cur == view[v]
        set == IF v = "site"
               THEN [cur EXCEPT !.jobId = l, !.trialId = tid]
               ELSE [cur EXCEPT !.jobId = l]
    IN  /\ L.phase = "starting"
        /\ Commit(DashboardState,
                  IF L.attached THEN [view EXCEPT ![v] = set] ELSE view,
                  [loops EXCEPT ![l] =
                      [@ EXCEPT !.phase = "fetching", !.promise = "pending",
                                !.inFlight = 1,
                                !.trial_id = IF v = "site" THEN tid ELSE Null,
                                !.intervalMs = IntervalOrDefault(Omitted)]])

\* the start request fails: the catch block of the handler runs
StartFails(l, message) ==
    LET L == loops[l]
        v == L.kind
    IN  /\ L.phase = "starting"
        /\ Commit(DashboardState,
                  IF L.attached THEN [view EXCEPT ![v] = CatchStart(v, @, message)]
                  ELSE view,
                  [loops EXCEPT ![l] = [@ EXCEPT !.phase = "startFailed"]])

\* any other caller of pollSiteAnalysisStatus / pollTrialMonitoringStatus,
\* with a callback of its own and an optional interval
CallPoll(l, arg) ==
    /\ FreeLoop(l)
    /\ Commit(DashboardState, view,
              [loops EXCEPT ![l] =
                  [@ EXCEPT !.kind = "generic", !.phase = "fetching",
                            !.promise = "pending", !.inFlight = 1, !.intervalArg = arg,
                            !.intervalMs = IntervalOrDefault(arg)]])

\* ---------------------------------------------------------- poller actions
\* (mutant) the id to poll is kept in one place for all loops: every loop
\* asks for the investigation polled last
investigationId_Shared(l) ==
    CHOOSE m \in Loops :
        /\ loops[m].phase # "unused"
        /\ \A n \in Loops : loops[n].phase # "unused" => n <= m

\* the investigationId the closure poll() of loop l was created with; the
\* model numbers the investigations as it numbers the loops
investigationId(l) == l

\* the answers the scripted server may give to the next status fetch of l
\* (a finished job keeps answering with the same terminal snapshot)
Answers(l) ==
    LET L == loops[l]
        served == {L.fetched[i] : i \in {j \in 1..Len(L.fetched) : IsTerminal(L.fetched[j])}}
        last == IF L.fetched = <<>> THEN <<>> ELSE L.fetched[Len(L.fetched)].agents
        mine == {s \in Snapshots : /\ s.investigation_id = investigationId(l)
                                   /\ Advances(last, s.agents)}
    IN
    {FetchOk(s) : s \in IF served = {} THEN mine \cap TerminalSnapshots ELSE served}
    \cup (IF NonTerminalUsed(l) < MaxNonTerminal
          THEN {FetchFail} \cup {FetchOk(s) : s \in mine \cap NonTerminalSnapshots}
          ELSE {})

\* the answer r to the status fetch of loop l arrives: the rest of poll()
\* runs, and with it the caller's onUpdate; after the first fetch the
\* promise of the poll function settles and the awaiting handler goes on
FetchReturns(l, r, cbThrows) ==
    LET L == loops[l]
        k == L.kind
        s == r.data
        out == poll(r, cbThrows, L.intervalMs)
        notify == out.called /\ NotifiesParent(k, s, L.trial_id)
        d == IF notify THEN handleAnalysisComplete(DashboardState, L.trial_id)
             ELSE DashboardState
        first == L.promise = "pending"
        v1 == IF out.called /\ k \in Views /\ L.attached
              THEN [view EXCEPT ![k] = OnUpdateView(k, @, s)]
              ELSE view
        v2 == IF first /\ out.rejected /\ k \in Views /\ L.attached
              THEN [v1 EXCEPT ![k] = CatchStart(k, @, "poll rejected")]
              ELSE v1
        L1 == [L EXCEPT
                 !.phase = out.next,
                 !.delay = out.delay,
                 !.nFail = IF r.ok THEN @ ELSE @ + 1,
                 !.fetched = IF r.ok THEN Append(@, s) ELSE @,
                 !.delivered = IF out.called THEN Append(@, s) ELSE @,
                 !.promise = PromiseAfter(@, out),
                 !.inFlight = @ - 1,
                 !.timers = @ + out.armed,
                 !.cbThrew = out.called /\ cbThrows]
    IN  /\ L.phase = "fetching"
        /\ ~L.dropped
        /\ r \in Answers(l)
        /\ cbThrows => k = "generic"
        /\ Commit(d, v2, [loops EXCEPT ![l] = L1])

\* the server never answers the status fetch of loop l; the axios client is
\* created without a timeout, so nothing ends the request
FetchDropped(l) ==
    /\ loops[l].phase = "fetching"
    /\ ~loops[l].dropped
    /\ Commit(DashboardState, view, [loops EXCEPT ![l] = [@ EXCEPT !.dropped = TRUE]])

\* the timer armed by setTimeout(poll, delay) fires: poll() issues a fetch
TimerFires(l) ==
    /\ loops[l].phase = "timer"
    /\ loops[l].timers > 0
    /\ TerminalFetched(l) <= MaxRedeliveries
    /\ Commit(DashboardState, view,
              [loops EXCEPT ![l] = [@ EXCEPT !.phase = "fetching", !.delay = 0,
                                             !.timers = @ - 1, !.inFlight = @ + 1]])

\* the application: the Dashboard, its two views and the loops they start
Next ==
    \/ ClickSelectionTab
    \/ ClickMonitoringTab
    \/ ClickNewAnalysis
    \/ \E l \in Loops : handleStartAnalysis(l)
    \/ \E l \in Loops : handleStartMonitoring(l)
    \/ \E l \in Loops, tid \in TrialIds : StartSucceeds(l, tid)
    \/ \E l \in Loops, m \in StartErrorTexts : StartFails(l, m)
    \/ \E l \in Loops, r \in {FetchFail} \cup {FetchOk(s) : s \in Snapshots},
          t \in BOOLEAN : FetchReturns(l, r, t)
    \/ \E l \in Loops : FetchDropped(l)
    \/ \E l \in Loops : TimerFires(l)

Spec == Init /\ [][Next]_vars

\* the browser runs every due timer and delivers every answer the server
\* gives; clicks are up to the user
Fairness ==
    /\ \A l \in Loops : WF_vars(TimerFires(l))
    /\ \A l \in Loops :
          WF_vars(\E r \in {FetchFail} \cup {FetchOk(s) : s \in Snapshots},
                     t \in BOOLEAN : FetchReturns(l, r, t))
    /\ \A l \in Loops :
          WF_vars(\/ \E tid \in TrialIds : StartSucceeds(l, tid)
                  \/ \E m \in StartErrorTexts : StartFails(l, m))

FairSpec == Spec /\ Fairness

\* the poll functions of apiService under any caller: the callback may
\* throw and the interval may be given
PollerNext ==
    \/ \E l \in Loops, arg \in IntervalArgs : CallPoll(l, arg)
    \/ \E l \in Loops, r \in {FetchFail} \cup {FetchOk(s) : s \in Snapshots},
          t \in BOOLEAN : FetchReturns(l, r, t)
    \/ \E l \in Loops : FetchDropped(l)
    \/ \E l \in Loops : TimerFires(l)

PollerSpec == Init /\ [][PollerNext]_vars

\* ------------------------------------------------- request helper calls
StartSiteAnalysisCall(trialParams) ==
    /\ call' = [fn |-> "startSiteAnalysis", input |-> trialParams,
                body |-> startSiteAnalysis(trialParams)]
    /\ UNCHANGED <<activeTab, trialId, analysisComplete, view, loops>>

RunWhatIfCall(scenario) ==
    /\ call' = [fn |-> "runWhatIfScenario", input |-> scenario,
                out |-> runWhatIfScenario(scenario)]
    /\ UNCHANGED <<activeTab, trialId, analysisComplete, view, loops>>

FormatErrorCall(error) ==
    /\ call' = [fn |-> "formatErrorMessage", input |-> error,
                out |-> formatErrorMessage(error)]
    /\ UNCHANGED <<activeTab, trialId, analysisComplete, view, loops>>

\* the request helpers of api.ts, called with any argument of their types
ApiNext ==
    \/ \E trialParams \in TrialParams \cup {NoParams} : StartSiteAnalysisCall(trialParams)
    \/ \E scenario \in WhatIfScenarios : RunWhatIfCall(scenario)
    \/ \E error \in ErrorValues : FormatErrorCall(error)

ApiSpec == Init /\ [][ApiNext]_vars

\* =================================================================== claims
Last(seq) == seq[Len(seq)]

TerminalAt(l) == {i \in 1..Len(loops[l].fetched) : IsTerminal(loops[l].fetched[i])}

FirstTerminal(l) == CHOOSE i \in TerminalAt(l) : \A j \in TerminalAt(l) : i <= j

ViewLoop(l) == loops[l].kind \in Views

\* the status fetch of loop l is answered (or fails) in this step
PollStep(l) == loops[l].phase = "fetching" /\ loops'[l].phase # "fetching"

\* C1: once a status fetch has returned a snapshot with status complete or
\* error, the loop is stopped (no timer, no fetch), and when the k-th
\* successful answer is the first terminal one, there were exactly k
\* successful fetches and exactly k onUpdate calls.
C1_StopsAfterTerminal ==
    \A l \in Loops :
        TerminalAt(l) # {} =>
            /\ loops[l].phase = "stopped"
            /\ Len(loops[l].fetched) = FirstTerminal(l)
            /\ Len(loops[l].delivered) = FirstTerminal(l)

\* C2: the snapshots passed to onUpdate are exactly the snapshots fetched,
\* one call per successful fetch, in the order of the fetches, whatever
\* their status.
C2_EveryFetchDelivered ==
    \A l \in Loops : loops[l].delivered = loops[l].fetched

C2_Witness ==
    \E l \in Loops :
        /\ Len(loops[l].delivered) = 2
        /\ loops[l].delivered[1].status = PENDING
        /\ loops[l].delivered[2].status = ERROR

\* C3: a step in which a status fetch fails calls onUpdate for nothing,
\* leaves the promise of the poll function unrejected, changes no view
\* state and arms the retry timer; and a step of the poll loop changes a
\* view's error state only when it delivers a snapshot with status error.
C3_FailedFetchNotSurfaced ==
    [][\A l \in Loops :
        /\ loops'[l].nFail > loops[l].nFail =>
              /\ loops'[l].delivered = loops[l].delivered
              /\ loops'[l].promise # "rejected"
              /\ loops'[l].phase = "timer"
              /\ view' = view
        /\ (PollStep(l) /\ \E v \in Views : view'[v].error # view[v].error) =>
              /\ Len(loops'[l].delivered) = Len(loops[l].delivered) + 1
              /\ Last(loops'[l].delivered).status = ERROR]_vars

C3_Witness ==
    \E l \in Loops :
        /\ ViewLoop(l) /\ loops[l].attached
        /\ loops[l].nFail = 1 /\ loops[l].phase = "timer"
        /\ loops[l].promise = "resolved"
        /\ view[loops[l].kind].isRunning
        /\ view[loops[l].kind].error = Null

\* C4: once the caller has given up a poll loop (the poll functions return
\* no handle, so all a caller can do is drop the loop: the view that
\* started it is unmounted), onUpdate is not invoked again for that loop,
\* even when a fetch was in flight.
Abandoned(l) == ViewLoop(l) /\ ~loops[l].attached

C4_NoUpdateAfterStop ==
    [][\A l \in Loops : Abandoned(l) => loops'[l].delivered = loops[l].delivered]_vars

\* C5 (as amended): when the last snapshot delivered by a view's loop has
\* status error, the loop is stopped, and if the view that started it is
\* still mounted, the view holds that snapshot, isRunning is false and the
\* error state is the snapshot's error message when that is a non-empty
\* string and the view's fallback text otherwise.
ErrorDelivered(l) ==
    /\ ViewLoop(l)
    /\ loops[l].delivered # <<>>
    /\ Last(loops[l].delivered).status = ERROR

C5_JobFailureSurfaced ==
    \A l \in Loops :
        ErrorDelivered(l) =>
            LET s == Last(loops[l].delivered)
                cur == view[loops[l].kind]
            IN  /\ loops[l].phase = "stopped"
                /\ loops[l].attached =>
                      /\ cur.status = s
                      /\ ~cur.isRunning
                      /\ cur.error = IF s.error \in {Undefined, ""}
                                     THEN FailedText(loops[l].kind) ELSE s.error

C5_Witness ==
    \E l \in Loops :
        /\ ViewLoop(l) /\ loops[l].attached
        /\ loops[l].delivered # <<>>
        /\ Last(loops[l].delivered).status = ERROR
        /\ Last(loops[l].delivered).error = "agent crashed"
        /\ view[loops[l].kind].error = "agent crashed"

\* C5 (as claimed): when a snapshot with status error is delivered, the
\* loop is stopped and the mounted view's error state equals the error
\* message of that snapshot, with isRunning false.
C5_ErrorVerbatim ==
    \A l \in Loops :
        ErrorDelivered(l) =>
            /\ loops[l].phase = "stopped"
            /\ loops[l].attached =>
                  /\ ~view[loops[l].kind].isRunning
                  /\ view[loops[l].kind].error = Last(loops[l].delivered).error

\* C6: a view holding a complete snapshot whose final report is missing,
\* empty or not parseable shows an error, and neither the results nor the
\* in-progress placeholder.
Unusable(report) == report \in {Undefined, "", "not-json"}

C6_DataShapeErrorShown ==
    \A v \in Views :
        (view[v].status.status = COMPLETE /\ Unusable(view[v].status.final_report)) =>
            /\ ErrorShown(view[v])
            /\ ~ResultsShown(view[v])
            /\ ~PlaceholderShown(view[v])

\* C7: the monitoring tab is active only while analysisComplete is true,
\* and analysisComplete turns true only in a step in which a Part 1 loop
\* with a non-empty trial_id delivers a snapshot with status complete.
C7_Part2AfterPart1 ==
    /\ [](activeTab = "monitoring" => analysisComplete)
    /\ [][(~analysisComplete /\ analysisComplete') =>
            \E l \in Loops :
                /\ loops[l].kind = "site"
                /\ loops[l].trial_id \notin {Null, Undefined, ""}
                /\ trialId' = loops[l].trial_id
                /\ Len(loops'[l].delivered) = Len(loops[l].delivered) + 1
                /\ Last(loops'[l].delivered).status = COMPLETE]_vars

C7_Witness ==
    /\ activeTab = "monitoring" /\ analysisComplete
    /\ \E l \in Loops : loops[l].kind = "monitor" /\ loops[l].phase = "fetching"

\* C8: a view's poll loop whose fetches are all answered, by a server that
\* gives a terminal answer after finitely many failures and pending/running
\* answers, eventually is stopped with the view's isRunning false.
C8_EventuallyStops ==
    \A l \in Loops :
        (ViewLoop(l) /\ loops[l].phase = "fetching") ~>
            \/ loops[l].dropped
            \/ /\ loops[l].phase = "stopped"
               /\ loops[l].attached => ~view[loops[l].kind].isRunning

C8_Witness ==
    \E l \in Loops :
        /\ ViewLoop(l) /\ loops[l].attached
        /\ loops[l].phase = "stopped"
        /\ NonTerminalUsed(l) >= 1
        /\ ~view[loops[l].kind].isRunning

\* C9: a status fetch the server never answers is eventually given up and
\* followed by a retry.
C9_UnansweredFetchTimesOut ==
    \A l \in Loops :
        (loops[l].phase = "fetching" /\ loops[l].dropped) ~> loops[l].phase = "timer"

\* C10: every armed timer of a loop has the delay intervalMs the caller
\* passed, after a delivered snapshot as after a failed fetch, and 2000 ms
\* when the caller passed none.
C10_ConstantInterval ==
    \A l \in Loops :
        loops[l].phase = "timer" =>
            loops[l].delay = IF loops[l].intervalArg = Omitted THEN 2000
                             ELSE loops[l].intervalArg[1]

C10_Witness ==
    \E l, m \in Loops :
        /\ loops[l].phase = "timer" /\ loops[l].nFail = 1
        /\ loops[l].intervalArg = Omitted
        /\ loops[m].phase = "timer" /\ loops[m].nFail = 0
        /\ loops[m].intervalArg # Omitted

\* C11: poll loops running side by side share no state: every snapshot a
\* loop passes to its onUpdate was fetched for the loop's own investigation
\* id, and a step of one loop (an answer, a failure, a retry, its stop)
\* leaves the state of every other loop as it was.
C11_LoopsIndependent ==
    /\ [](\A l \in Loops : \A i \in 1..Len(loops[l].delivered) :
            loops[l].delivered[i].investigation_id = l)
    /\ [][\A l, m \in Loops :
            (l # m /\ loops'[l] # loops[l]) => loops'[m] = loops[m]]_vars

C11_Witness ==
    \E l, m \in Loops :
        /\ l # m
        /\ loops[l].phase = "stopped" /\ loops[l].delivered # <<>>
        /\ loops[m].phase = "timer" /\ loops[m].nFail = 1

\* C12: while a view shows a snapshot, the progress fraction is (agents
\* with status complete) / (agents) of the latest snapshot delivered to
\* the view, it is a defined value between 0 and 1, and from one snapshot
\* of an investigation to the next it does not decrease.
C12_ProgressDefinedMonotone ==
    /\ [](\A v \in Views : ProgressShown(view[v]) =>
            LET f == Progress(view[v].status)
            IN  f.den > 0 /\ 0 <= f.num /\ f.num <= f.den)
    /\ [](\A l \in Loops :
            (ViewLoop(l) /\ loops[l].attached /\ loops[l].delivered # <<>>) =>
                view[loops[l].kind].status = Last(loops[l].delivered))
    /\ [][\A v \in Views :
            (/\ ProgressShown(view[v]) /\ ProgressShown(view'[v])
             /\ view'[v].jobId = view[v].jobId) =>
                LET f == Progress(view[v].status)
                    g == Progress(view'[v].status)
                IN  g.num * f.den >= f.num * g.den]_vars

\* C13: a view's stored final report is non-null only while the snapshot
\* the view holds has status complete, and the step that starts a run
\* leaves the view without a report and without a snapshot.
C13_ReportOnlyWhenComplete ==
    /\ [](\A v \in Views :
            view[v].finalReport # Null => view[v].status.status = COMPLETE)
    /\ [][\A v \in Views :
            (~view[v].isRunning /\ view'[v].isRunning) =>
                view'[v].finalReport = Null /\ view'[v].status = NullSnapshot]_vars

C13_Witness ==
    \E v \in Views :
        /\ view[v].finalReport = "report"
        /\ view[v].status.status = COMPLETE
        /\ ~view[v].isRunning

\* C14: whenever a view shows the completion mark or the results, every
\* agent of the snapshot it holds has status complete, and the step that
\* unlocks Part 2 delivers a snapshot all of whose agents are complete.
AllAgentsComplete(s) ==
    s.agents # <<>> /\ \A i \in 1..Len(s.agents) : s.agents[i] = COMPLETE

ChartShown == EnrollmentCurveChart(view["monitor"].finalReport)
AlertsShown == AlertDashboard(view["monitor"].finalReport)
SitesShown == SiteRecommendationTable(view["site"].finalReport)

FuturePoints(c) ==
    {i \in 1..Len(c.forecast_curve) : c.forecast_curve[i].week > c.weeks_elapsed}

Spread(pt) == pt.p90 - pt.p10

\* C15: while the monitoring view shows its results, every point of the
\* forecast curve with week > weeks_elapsed (13) has p10 <= p50 <= p90.
C15_QuantilesOrdered ==
    ResultsShown(view["monitor"]) =>
        \A i \in FuturePoints(ChartShown) :
            LET pt == ChartShown.forecast_curve[i]
            IN  pt.p10 <= pt.p50 /\ pt.p50 <= pt.p90

C15_Witness ==
    /\ ResultsShown(view["monitor"])
    /\ \E i \in FuturePoints(ChartShown) :
          /\ ChartShown.forecast_curve[i].week = 14
          /\ ChartShown.forecast_curve[i].p10 < ChartShown.forecast_curve[i].p50
          /\ ChartShown.forecast_curve[i].p50 < ChartShown.forecast_curve[i].p90

\* C16: while the monitoring view shows its results, for any two future
\* points with weeks w1 < w2 the spread p90 - p10 at w2 is at least the
\* spread at w1, and the spread is positive at every future week.
C16_SpreadWidens ==
    ResultsShown(view["monitor"]) =>
        LET c == ChartShown.forecast_curve
        IN  /\ \A i \in FuturePoints(ChartShown) : Spread(c[i]) > 0
            /\ \A i, j \in FuturePoints(ChartShown) :
                  c[i].week < c[j].week => Spread(c[j]) >= Spread(c[i])

C16_Witness ==
    /\ ResultsShown(view["monitor"])
    /\ \E i, j \in FuturePoints(ChartShown) :
          /\ ChartShown.forecast_curve[i].week < ChartShown.forecast_curve[j].week
          /\ Spread(ChartShown.forecast_curve[j]) > Spread(ChartShown.forecast_curve[i])

\* C17: while the monitoring view shows its results, the probability of
\* meeting the target (in hundredths) lies in 0..100 and agrees with the
\* curve at the final week W: at least 90 when target <= p10(W), at most
\* 10 when target >= p90(W), strictly between 10 and 90 otherwise.
FinalPoint(c) == c.forecast_curve[Len(c.forecast_curve)]

C17_ProbabilityConsistent ==
    ResultsShown(view["monitor"]) =>
        LET c == ChartShown
            W == FinalPoint(c)
        IN  /\ W.week = c.total_weeks
            /\ 0 <= c.probability /\ c.probability <= 100
            /\ c.target <= W.p10 => c.probability >= 90
            /\ c.target >= W.p90 => c.probability <= 10
            /\ (W.p10 < c.target /\ c.target < W.p90) =>
                  (10 < c.probability /\ c.probability < 90)

C17_Witness ==
    /\ ResultsShown(view["monitor"])
    /\ ChartShown.target = 200
    /\ FinalPoint(ChartShown).p10 = 178 /\ FinalPoint(ChartShown).p90 = 260
    /\ ChartShown.probability = 68

\* C18: while the monitoring view shows its results, every alert agrees
\* with the first matching rule applied to its own fields: 3 or more weeks
\* since the last enrollment give critical / flatlined whatever the
\* shortfall; else a shortfall of 40 or more gives warning /
\* underperforming; else the alert is info / declining_trend with a
\* shortfall of 20 or more (a site matching no rule has no alert).
C18_AlertPriority ==
    ResultsShown(view["monitor"]) =>
        \A i \in 1..Len(AlertsShown) :
            LET a == AlertsShown[i]
            IN  IF a.weeks_since_last_enrollment >= 3
                THEN a.severity = "critical" /\ a.alert_type = "flatlined"
                ELSE IF a.shortfall_percent >= 40
                THEN a.severity = "warning" /\ a.alert_type = "underperforming"
                ELSE /\ a.shortfall_percent >= 20
                     /\ a.severity = "info" /\ a.alert_type = "declining_trend"

C18_Witness ==
    /\ ResultsShown(view["monitor"])
    /\ \E i \in 1..Len(AlertsShown) :
          /\ AlertsShown[i].weeks_since_last_enrollment >= 3
          /\ AlertsShown[i].shortfall_percent >= 40
          /\ AlertsShown[i].severity = "critical"

\* C19: while the monitoring view shows its results, every alert's
\* shortfall_percent is 100 * (target_enrollment - current_enrollment) /
\* target_enrollment, and 0 when that is negative.
C19_ShortfallFormula ==
    ResultsShown(view["monitor"]) =>
        \A i \in 1..Len(AlertsShown) :
            LET a == AlertsShown[i]
            IN  IF a.current_enrollment >= a.target_enrollment
                THEN a.shortfall_percent = 0
                ELSE a.shortfall_percent * a.target_enrollment
                         = 100 * (a.target_enrollment - a.current_enrollment)

\* C20: while the site selection view shows its results, the ranks of the
\* N sites listed are exactly 1..N, each once, and a site of smaller rank
\* has a composite_score at least that of a site of larger rank.
C20_RanksFollowScores ==
    ResultsShown(view["site"]) =>
        LET N == Len(SitesShown)
        IN  /\ {SitesShown[i].rank : i \in 1..N} = 1..N
            /\ \A i, j \in 1..N :
                  SitesShown[i].rank < SitesShown[j].rank =>
                      SitesShown[i].composite_score >= SitesShown[j].composite_score

C20_Witness ==
    /\ ResultsShown(view["site"])
    /\ Len(SitesShown) = 10
    /\ \E i \in 1..Len(SitesShown) : SitesShown[i].rank = 10

\* C22: every step that resets the Dashboard (the only step that turns
\* analysisComplete false) ends with activeTab = 'selection', trialId null,
\* analysisComplete false and the start button of the site selection view
\* enabled.
C22_ResetEnablesStart ==
    [][(analysisComplete /\ ~analysisComplete') =>
            /\ activeTab' = "selection"
            /\ trialId' = Null
            /\ StartEnabled(view'["site"])]_vars

\* C23: Part 2 is unlocked, and trialId set, only by a loop that was
\* started after the last reset: in every step that turns analysisComplete
\* true or gives trialId a new non-null value, a Part 1 loop that is not
\* from before a reset delivers a complete snapshot.
C23_StaleLoopCannotUnlock ==
    [][((~analysisComplete /\ analysisComplete')
        \/ (trialId' # trialId /\ trialId' # Null)) =>
            \E l \in Loops :
                /\ loops[l].kind = "site"
                /\ ~loops[l].preReset
                /\ Len(loops'[l].delivered) = Len(loops[l].delivered) + 1
                /\ Last(loops'[l].delivered).status = COMPLETE]_vars

Attempts(l) == Len(loops[l].fetched) + loops[l].nFail

C25_PromiseResolvesAfterFirstFetch ==
    \A l \in Loops :
        /\ loops[l].promise # "rejected"
        /\ loops[l].promise = "pending" <=> (loops[l].phase = "fetching" /\ Attempts(l) = 0)
        /\ loops[l].promise = "resolved" <=> Attempts(l) >= 1

C25_Witness ==
    \E l \in Loops :
        /\ loops[l].promise = "resolved"
        /\ loops[l].nFail = 1
        /\ Len(loops[l].delivered) = 1
        /\ loops[l].phase = "stopped"

\* C26: a loop has at most one fetch in flight or one pending timer, never
\* both: the fetch is in flight exactly in phase fetching, the timer is
\* pending exactly in phase timer, and a step handles one fetch at most.
C26_OneFetchOrOneTimer ==
    /\ [](\A l \in Loops :
            /\ loops[l].inFlight + loops[l].timers <= 1
            /\ loops[l].inFlight = 1 <=> loops[l].phase = "fetching"
            /\ loops[l].timers = 1 <=> loops[l].phase = "timer")
    /\ [][\A l \in Loops :
            Len(loops'[l].fetched) + loops'[l].nFail <= Attempts(l) + 1]_vars

C26_Witness ==
    \E l \in Loops :
        /\ loops[l].timers = 1 /\ loops[l].inFlight = 0
        /\ Attempts(l) = 2

\* C27: a view instance has at most one active loop (start request
\* pending, fetch in flight or timer pending) of its own, and a loop is
\* started only from a view that is not running and holds no snapshot.
ActiveLoops(v) ==
    {l \in Loops : /\ loops[l].kind = v /\ loops[l].attached
                   /\ loops[l].phase \in {"starting", "fetching", "timer"}}

C27_OneLoopPerView ==
    /\ [](\A v \in Views : Cardinality(ActiveLoops(v)) <= 1)
    /\ [][\A l \in Loops :
            (loops[l].phase = "unused" /\ loops'[l].phase = "starting") =>
                /\ ~view[loops'[l].kind].isRunning
                /\ view[loops'[l].kind].status = NullSnapshot]_vars

C27_Witness ==
    \E l, m \in Loops :
        /\ loops[l].kind = "site" /\ loops[l].phase = "startFailed" /\ loops[l].attached
        /\ loops[m].kind = "site" /\ loops[m].phase = "timer" /\ loops[m].attached

\* C28: analysisComplete is true exactly when trialId is a non-empty
\* string, and the monitoring view is mounted only with such a trial id.
C28_CompleteIffTrialId ==
    /\ analysisComplete <=> trialId \notin {Null, Undefined, ""}
    /\ IsMounted("monitor") => trialId \notin {Null, Undefined, ""}

C28_Witness ==
    /\ analysisComplete /\ trialId = "trial-1"
    /\ activeTab = "monitoring"
    /\ \E l \in Loops : loops[l].kind = "site" /\ loops[l].trial_id = "trial-1"

\* C21: a What-If scenario that populates a field belonging to another
\* intervention type is rejected by runWhatIfScenario, and no request is
\* made for it.
FieldOf(type) ==
    CASE type = "add_recruitment_budget" -> "budget_amount"
      [] type = "replace_site" -> "replacement_site_id"
      [] type = "extend_trial_duration" -> "extension_weeks"
      [] type = "increase_site_support" -> "support_level"

Mismatched(scenario) ==
    \E f \in scenario.populated : f # FieldOf(scenario.intervention_type)

C21_MismatchedScenarioRejected ==
    (call.fn = "runWhatIfScenario" /\ Mismatched(call.input)) =>
        call.out.rejected /\ ~call.out.posted

\* C29: startSiteAnalysis posts every parameter the caller provided as it
\* was provided, a number 0 included, and the default (Phase III, Oncology,
\* 200, 18, 10) for a parameter the caller left out.
Provided(x, d) == IF x = Absent THEN d ELSE x[1]

C29_ProvidedParamsSentUnchanged ==
    call.fn = "startSiteAnalysis" =>
        /\ call.body.phase = Provided(call.input.phase, "Phase III")
        /\ call.body.indication = Provided(call.input.indication, "Oncology")
        /\ call.body.target_enrollment = Provided(call.input.target_enrollment, 200)
        /\ call.body.duration_months = Provided(call.input.duration_months, 18)
        /\ call.body.target_sites = Provided(call.input.target_sites, 10)

\* C30: formatErrorMessage throws for no error value and returns a
\* non-empty string, chosen in the order: message of an API error, its
\* error code, response.data.message, error.message, 'An unexpected error
\* occurred'.
Present(x) == x # Absent /\ x[1] # ""

ExpectedMessage(error) ==
    IF error.kind = "object" /\ error.error # Absent /\ Present(error.message)
    THEN error.message[1]
    ELSE IF error.kind = "object" /\ Present(error.error) THEN error.error[1]
    ELSE IF error.kind = "object" /\ Present(ResponseMessage(error))
    THEN ResponseMessage(error)[1]
    ELSE IF error.kind = "object" /\ error.error = Absent /\ Present(error.message)
    THEN error.message[1]
    ELSE "An unexpected error occurred"

C30_FormatNeverThrows ==
    call.fn = "formatErrorMessage" =>
        /\ ~call.out.threw
        /\ call.out.value # ""
        /\ call.out.value = ExpectedMessage(call.input)

====
